---- MODULE Spec2Model ----
(***************************************************************************)
(* Model of the chat server of ts-socket (src/shared/types.ts, lines       *)
(* 66-310): the users registry, the rooms, the message log and the         *)
(* socket.io event handlers registered for each connection.                *)
(*                                                                         *)
(* Strings are sequences of one-character strings, so that trim() and      *)
(* toLowerCase() are computed and not assumed.  Socket ids are the         *)
(* numbers 1..MaxConns, given in order of connection; the 'system' author  *)
(* is the number 0.                                                        *)
(* Every handler runs to completion (Node's single thread), so a handler   *)
(* is one action.  While a handler's emissions are queued, out holds them  *)
(* in order, one entry per receiving socket, and lastOp names the handler  *)
(* and its input; Deliver hands the queue to the transport and the next    *)
(* request is taken after that.  A handler that calls Date.now() takes its *)
(* reading as an input.                                                    *)
(*                                                                         *)
(* The browser client ChatApp (src/vite.config.ts, lines 32-327) is the    *)
(* second part: its socket, its currentUser and the screen it shows.       *)
(* Spec is the server with raw sockets alone; SpecClient adds one ChatApp  *)
(* that talks to the server through its own socket.                        *)
(***************************************************************************)
EXTENDS Integers, Sequences, FiniteSets, TLC

\* ---- bounds ----
MaxConns == 2
MaxLog == 3
MaxLimit == 1

\* ---- program constants ----
DefaultLimit == 50

Conns == 1..MaxConns
System == 0
\* the ChatApp's socket while it is not connected
NoSocket == 0

VARIABLES status, sockUser, users, rooms, messages, now, out, lastOp,
          clientSocket, currentUser, screen

\* the fields of ChatApp
clientVars == <<clientSocket, currentUser, screen>>

vars == <<status, sockUser, users, rooms, messages, now, out, lastOp,
          clientSocket, currentUser, screen>>

\* ---- strings ----
Space == " "

LowerChar(ch) ==
    CASE ch = "A" -> "a"
      [] ch = "B" -> "b"
      [] OTHER -> ch

toLowerCase(s) == [i \in 1..Len(s) |-> LowerChar(s[i])]

RECURSIVE trimStart(_)
trimStart(s) ==
    IF s # <<>> /\ Head(s) = Space THEN trimStart(Tail(s)) ELSE s

RECURSIVE trimEnd(_)
trimEnd(s) ==
    IF s # <<>> /\ s[Len(s)] = Space THEN trimEnd(SubSeq(s, 1, Len(s) - 1)) ELSE s

trim(s) == trimEnd(trimStart(s))

\* `${username} joined the chat` and `${user.username} left the chat`
JoinedText(username) == username \o <<" ", "joined the chat">>
LeftText(username) == username \o <<" ", "left the chat">>

\* ---- inputs ----
\* A truthy argument that is not a string (a number, an object): calling
\* .trim() on it throws a TypeError.
NotAString == <<"[object Object]">>

UsernameInputs == { <<" ">>, <<"a">>, <<"A", " ">>, <<"b">>, NotAString }
ContentInputs == { <<" ">>, <<"h">>, <<" ", "h", " ">>, NotAString }
RoomNameInputs == { <<" ", "r">>, NotAString }
\* the readings of Date.now(); 0 is the reading at start-up
ClockReadings == {0, 1}
NoLimit == -1
LimitInputs == {NoLimit} \cup (0..MaxLimit)

\* ---- records ----
NoUser == [id |-> 0, username |-> <<>>, joinedAt |-> 0]

\* callback(null): no room
NullRoom == [id |-> <<"null">>, name |-> <<>>, users |-> <<>>, createdAt |-> 0]

User(c, username, t) == [id |-> c, username |-> username, joinedAt |-> t]

Message(id, userId, username, content, t, type) ==
    [id |-> id, userId |-> userId, username |-> username, content |-> content,
     timestamp |-> t, type |-> type]

Room(id, name, t) == [id |-> id, name |-> name, users |-> <<>>, createdAt |-> t]

\* Date.now().toString(): the decimal numeral of the clock reading, which is
\* one-to-one on clock readings; the reading itself stands for the numeral.
MessageId(t) == t

\* `room-${Date.now()}`
RoomId(t) == <<"room", t>>

defaultRoom == Room(<<"general">>, <<"General">>, 0)

\* ---- Map and Array helpers ----
\* Map.has(key)
MapHas(m, key) == \E i \in 1..Len(m) : m[i].id = key

\* Map.get(key)
MapGet(m, key) == m[CHOOSE i \in 1..Len(m) : m[i].id = key]

\* Map.set(key, value): a present key keeps its place, a new key goes last
MapSet(m, value) ==
    IF MapHas(m, value.id)
    THEN [i \in 1..Len(m) |-> IF m[i].id = value.id THEN value ELSE m[i]]
    ELSE Append(m, value)

\* Map.delete(key) and Array.filter(u => u.id !== key)
RECURSIVE FilterOutId(_, _)
FilterOutId(s, key) ==
    IF s = <<>> THEN <<>>
    ELSE IF Head(s).id = key THEN FilterOutId(Tail(s), key)
    ELSE <<Head(s)>> \o FilterOutId(Tail(s), key)

Max(a, b) == IF a > b THEN a ELSE b
Min(a, b) == IF a < b THEN a ELSE b

\* Array.slice(start): a negative start counts from the end; -0 is 0
Slice(s, start) ==
    LET len == Len(s)
        k == IF start < 0 THEN Max(len + start, 0) ELSE Min(start, len)
    IN SubSeq(s, k + 1, len)

\* messages.unshift(message) in the place of messages.push(message)
AppendLogFront(log, message) == <<message>> \o log

\* messages.push(message)
AppendLog(log, message) == Append(log, message)

\* ---- emitting ----
Connected(st) == {c \in Conns : st[c] = "connected"}

Event(c, ev, payload) == [to |-> c, ev |-> ev, payload |-> payload]

RECURSIVE EmitToSet(_, _, _)
EmitToSet(S, ev, payload) ==
    IF S = {} THEN <<>>
    ELSE LET c == CHOOSE x \in S : \A y \in S : x <= y
         IN <<Event(c, ev, payload)>> \o EmitToSet(S \ {c}, ev, payload)

\* socket.emit(ev, payload)
SocketEmit(c, ev, payload) == <<Event(c, ev, payload)>>

\* io.emit(ev, payload): every socket connected to the namespace
IoEmit(st, ev, payload) == EmitToSet(Connected(st), ev, payload)

\* socket.broadcast.emit(ev, payload): every connected socket but this one
BroadcastEmit(st, c, ev, payload) == EmitToSet(Connected(st) \ {c}, ev, payload)

\* callback(...): the acknowledgement of the request
Ack(c, op, payload) == <<Event(c, "ack", payload)>>

Op(op, c, arg) == [op |-> op, conn |-> c, arg |-> arg]

\* no handler has emissions queued
NoOp == Op("none", 0, <<>>)

\* ---- initial state ----
Init ==
    /\ status = [c \in Conns |-> "idle"]
    /\ sockUser = [c \in Conns |-> NoUser]
    /\ users = <<>>
    /\ rooms = <<defaultRoom>>
    /\ messages = <<>>
    /\ now = 0
    /\ out = <<>>
    /\ lastOp = NoOp
    /\ clientSocket = NoSocket
    /\ currentUser = NoUser
    /\ screen = "login"

\* ---- Date.now() ----
\* What a handler can read from the clock: now is the last reading taken and
\* the clock does not run backwards.  Two handlers may get the same reading.
DateNow == {t \in ClockReadings : now <= t}

\* ---- the transport takes the queued emissions ----
Deliver ==
    /\ lastOp # NoOp
    /\ out' = <<>>
    /\ lastOp' = NoOp
    /\ UNCHANGED <<status, sockUser, users, rooms, messages, now>>

\* ---- io.on('connection') ----
\* Socket ids are fresh opaque names: the sockets are numbered in the order
\* in which they connect.
Connection(c) ==
    /\ lastOp = NoOp
    /\ status[c] = "idle"
    /\ \A d \in Conns : d < c => status[d] # "idle"
    /\ status' = [status EXCEPT ![c] = "connected"]
    /\ UNCHANGED <<sockUser, users, rooms, messages, now, out, lastOp>>

\* ---- socket.on('user:join') ----
\* One clock reading stands for the Date.now() and the new Date() calls of a
\* handler run.
existingUser(username) ==
    \E i \in 1..Len(users) : toLowerCase(users[i].username) = toLowerCase(username)

\* PushGeneral with the push left out
PushGeneralNone(rs, user) == rs

PushGeneral(rs, user) ==
    [i \in 1..Len(rs) |->
        IF rs[i].id = <<"general">>
        THEN [rs[i] EXCEPT !.users = Append(@, user)]
        ELSE rs[i]]

\* JoinOut with the history read after the push and the broadcast sent first
JoinOutHistoryLast(c, user, systemMessage) ==
    BroadcastEmit(status, c, "user:joined", user)
    \o IoEmit(status, "message:new", systemMessage)
    \o SocketEmit(c, "users:list", MapSet(users, user))
    \o SocketEmit(c, "message:history",
                  Slice(AppendLog(messages, systemMessage), -DefaultLimit))
    \o Ack(c, "user:join", <<TRUE>>)

\* JoinOut with user:joined sent by io.emit
JoinOutToAll(c, user, systemMessage) ==
    IoEmit(status, "user:joined", user)
    \o SocketEmit(c, "users:list", MapSet(users, user))
    \o SocketEmit(c, "message:history", Slice(messages, -DefaultLimit))
    \o IoEmit(status, "message:new", systemMessage)
    \o Ack(c, "user:join", <<TRUE>>)

\* what a successful join emits, in the order of the calls (lines 141-159);
\* users and messages are read as they are at each call
JoinOut(c, user, systemMessage) ==
    BroadcastEmit(status, c, "user:joined", user)
    \o SocketEmit(c, "users:list", MapSet(users, user))
    \o SocketEmit(c, "message:history", Slice(messages, -DefaultLimit))
    \o IoEmit(status, "message:new", systemMessage)
    \o Ack(c, "user:join", <<TRUE>>)

UserJoin(c, username) ==
    /\ lastOp = NoOp
    /\ status[c] = "connected"
    /\ lastOp' = Op("user:join", c, username)
    /\ IF username = NotAString
       THEN /\ out' = Ack(c, "user:join", <<FALSE, "Internal server error">>)
            /\ UNCHANGED <<status, sockUser, users, rooms, messages, now>>
       ELSE IF username = <<>> \/ Len(trim(username)) = 0
       THEN /\ out' = Ack(c, "user:join", <<FALSE, "Username cannot be empty">>)
            /\ UNCHANGED <<status, sockUser, users, rooms, messages, now>>
       ELSE IF existingUser(username)
       THEN /\ out' = Ack(c, "user:join", <<FALSE, "Username already taken">>)
            /\ UNCHANGED <<status, sockUser, users, rooms, messages, now>>
       ELSE /\ Len(messages) < MaxLog
            /\ \E t \in DateNow :
               LET user == User(c, trim(username), t)
                   systemMessage == Message(MessageId(t), System, <<"System">>,
                                            JoinedText(username), t, "system")
               IN /\ now' = t
                  /\ users' = MapSet(users, user)
                  /\ sockUser' = [sockUser EXCEPT ![c] = user]
                  /\ rooms' = PushGeneral(rooms, user)
                  /\ messages' = AppendLog(messages, systemMessage)
                  /\ out' = JoinOut(c, user, systemMessage)
            /\ UNCHANGED <<status>>

\* ---- socket.on('message:send') ----
\* IsBlank with the trim() test left out
IsBlankEmptyOnly(content) == content = <<>>

\* !content || content.trim().length === 0
IsBlank(content) == content = <<>> \/ Len(trim(content)) = 0

\* NewMessage with the content stored as received
NewMessageUntrimmed(user, content, t) ==
    Message(MessageId(t), user.id, user.username, content, t, "text")

NewMessage(user, content, t) ==
    Message(MessageId(t), user.id, user.username, trim(content), t, "text")

MessageSend(c, content) ==
    /\ lastOp = NoOp
    /\ status[c] = "connected"
    /\ lastOp' = Op("message:send", c, content)
    /\ LET user == sockUser[c]
       IN IF user = NoUser
          THEN /\ out' = Ack(c, "message:send", <<FALSE>>)
                         \o SocketEmit(c, "error", "You must join first")
               /\ UNCHANGED <<status, sockUser, users, rooms, messages, now>>
          ELSE IF content = NotAString \/ IsBlank(content)
          THEN /\ out' = Ack(c, "message:send", <<FALSE>>)
               /\ UNCHANGED <<status, sockUser, users, rooms, messages, now>>
          ELSE /\ Len(messages) < MaxLog
               /\ \E t \in DateNow :
                  LET message == NewMessage(user, content, t)
                  IN /\ now' = t
                     /\ messages' = AppendLog(messages, message)
                     /\ out' = IoEmit(status, "message:new", message)
                               \o Ack(c, "message:send", <<TRUE>>)
               /\ UNCHANGED <<status, sockUser, users, rooms>>

\* ---- socket.on('message:getHistory') ----
history(limit) == Slice(messages, -(IF limit = NoLimit THEN DefaultLimit ELSE limit))

GetHistory(c, limit) ==
    /\ lastOp = NoOp
    /\ status[c] = "connected"
    /\ lastOp' = Op("message:getHistory", c, limit)
    /\ out' = SocketEmit(c, "message:history", history(limit))
    /\ UNCHANGED <<status, sockUser, users, rooms, messages, now>>

\* ---- socket.on('room:create') ----
\* RoomCreate with rooms.set(roomId, ...) run before name.trim() is evaluated
RoomCreateSetFirst(c, name) ==
    /\ lastOp = NoOp
    /\ status[c] = "connected"
    /\ lastOp' = Op("room:create", c, name)
    /\ IF sockUser[c] = NoUser
       THEN /\ out' = Ack(c, "room:create", <<NullRoom>>)
            /\ UNCHANGED <<status, sockUser, users, rooms, messages, now>>
       ELSE /\ \E t \in DateNow :
               LET room == Room(RoomId(t), IF name = NotAString THEN <<>> ELSE trim(name), t)
               IN /\ now' = t
                  /\ rooms' = MapSet(rooms, room)
                  /\ out' = IF name = NotAString
                            THEN Ack(c, "room:create", <<NullRoom>>)
                            ELSE IoEmit(status, "room:created", room)
                                 \o Ack(c, "room:create", <<room>>)
            /\ UNCHANGED <<status, sockUser, users, messages>>

RoomCreate(c, name) ==
    /\ lastOp = NoOp
    /\ status[c] = "connected"
    /\ lastOp' = Op("room:create", c, name)
    /\ IF sockUser[c] = NoUser \/ name = NotAString
       THEN /\ out' = Ack(c, "room:create", <<NullRoom>>)
            /\ UNCHANGED <<status, sockUser, users, rooms, messages, now>>
       ELSE /\ \E t \in DateNow :
               LET room == Room(RoomId(t), trim(name), t)
               IN /\ now' = t
                  /\ rooms' = MapSet(rooms, room)
                  /\ out' = IoEmit(status, "room:created", room)
                            \o Ack(c, "room:create", <<room>>)
            /\ UNCHANGED <<status, sockUser, users, messages>>

\* ---- socket.on('room:list') ----
\* RoomList with the list sent by io.emit
RoomListToAll(c) ==
    /\ lastOp = NoOp
    /\ status[c] = "connected"
    /\ lastOp' = Op("room:list", c, <<>>)
    /\ out' = IoEmit(status, "rooms:list", rooms)
    /\ UNCHANGED <<status, sockUser, users, rooms, messages, now>>

RoomList(c) ==
    /\ lastOp = NoOp
    /\ status[c] = "connected"
    /\ lastOp' = Op("room:list", c, <<>>)
    /\ out' = SocketEmit(c, "rooms:list", rooms)
    /\ UNCHANGED <<status, sockUser, users, rooms, messages, now>>

\* ---- socket.on('typing:start') ----
TypingStart(c) ==
    /\ lastOp = NoOp
    /\ status[c] = "connected"
    /\ lastOp' = Op("typing:start", c, <<>>)
    /\ out' = IF sockUser[c] # NoUser
              THEN BroadcastEmit(status, c, "notification",
                                 sockUser[c].username \o <<" ", "is typing...">>)
              ELSE <<>>
    /\ UNCHANGED <<status, sockUser, users, rooms, messages, now>>

\* ---- socket.on('typing:stop') ----
TypingStop(c) ==
    /\ lastOp = NoOp
    /\ status[c] = "connected"
    /\ lastOp' = Op("typing:stop", c, <<>>)
    /\ out' = <<>>
    /\ UNCHANGED <<status, sockUser, users, rooms, messages, now>>

\* ---- socket.on('disconnect') ----
\* FilterRooms with the filter left out
FilterRoomsNone(rs, c) == rs

FilterRooms(rs, c) ==
    [i \in 1..Len(rs) |-> [rs[i] EXCEPT !.users = FilterOutId(@, c)]]

\* DisconnectOut with the system message sent before user:left
DisconnectOutMessageFirst(c, st, user, systemMessage) ==
    IoEmit(st, "message:new", systemMessage)
    \o BroadcastEmit(st, c, "user:left", user)

\* what the disconnect of a user emits, in the order of the calls
DisconnectOut(c, st, user, systemMessage) ==
    BroadcastEmit(st, c, "user:left", user)
    \o IoEmit(st, "message:new", systemMessage)

\* OnDisconnect with users.delete(socket.id) left out
OnDisconnectKeepUser(c, st) ==
    LET user == sockUser[c]
    IN IF user # NoUser
       THEN /\ Len(messages) < MaxLog
            /\ \E t \in DateNow :
               LET systemMessage == Message(MessageId(t), System, <<"System">>,
                                            LeftText(user.username), t, "system")
               IN /\ now' = t
                  /\ users' = users
                  /\ rooms' = FilterRooms(rooms, c)
                  /\ messages' = AppendLog(messages, systemMessage)
                  /\ out' = DisconnectOut(c, st, user, systemMessage)
       ELSE /\ out' = <<>>
            /\ UNCHANGED <<users, rooms, messages, now>>

\* The body of the handler; st is the connection table once socket c has
\* left the namespace, which socket.io does before it calls the handler.
OnDisconnect(c, st) ==
    LET user == sockUser[c]
    IN IF user # NoUser
       THEN /\ Len(messages) < MaxLog
            /\ \E t \in DateNow :
               LET systemMessage == Message(MessageId(t), System, <<"System">>,
                                            LeftText(user.username), t, "system")
               IN /\ now' = t
                  /\ users' = FilterOutId(users, c)
                  /\ rooms' = FilterRooms(rooms, c)
                  /\ messages' = AppendLog(messages, systemMessage)
                  /\ out' = DisconnectOut(c, st, user, systemMessage)
       ELSE /\ out' = <<>>
            /\ UNCHANGED <<users, rooms, messages, now>>

Disconnect(c) ==
    /\ lastOp = NoOp
    /\ status[c] = "connected"
    /\ status' = [status EXCEPT ![c] = "closed"]
    /\ lastOp' = Op("disconnect", c, <<>>)
    /\ OnDisconnect(c, status')
    /\ UNCHANGED <<sockUser>>

\* The handler run once more for a socket that already disconnected.
\* socket.io itself fires 'disconnect' once per socket; this is the second
\* call that the idempotence property speaks about.
DisconnectAgain(c) ==
    /\ lastOp = NoOp
    /\ status[c] = "closed"
    /\ lastOp' = Op("disconnect:again", c, <<>>)
    /\ OnDisconnect(c, status)
    /\ UNCHANGED <<status, sockUser>>

\* ---- specifications ----
\* the server and raw sockets; no ChatApp is running
Next ==
    \/ Deliver /\ UNCHANGED clientVars
    \/ \E c \in Conns : Connection(c) /\ UNCHANGED clientVars
    \/ \E c \in Conns, username \in UsernameInputs :
          UserJoin(c, username) /\ UNCHANGED clientVars
    \/ \E c \in Conns, content \in ContentInputs :
          MessageSend(c, content) /\ UNCHANGED clientVars
    \/ \E c \in Conns, limit \in LimitInputs :
          GetHistory(c, limit) /\ UNCHANGED clientVars
    \/ \E c \in Conns, name \in RoomNameInputs :
          RoomCreate(c, name) /\ UNCHANGED clientVars
    \/ \E c \in Conns : RoomList(c) /\ UNCHANGED clientVars
    \/ \E c \in Conns : TypingStart(c) /\ UNCHANGED clientVars
    \/ \E c \in Conns : TypingStop(c) /\ UNCHANGED clientVars
    \/ \E c \in Conns : Disconnect(c) /\ UNCHANGED clientVars

Spec == Init /\ [][Next]_vars

NextTwice == Next \/ \E c \in Conns : DisconnectAgain(c) /\ UNCHANGED clientVars

SpecTwice == Init /\ [][NextTwice]_vars

TypeOK ==
    /\ status \in [Conns -> {"idle", "connected", "closed"}]
    /\ now \in ClockReadings
    /\ Len(messages) <= MaxLog

\* ---- vocabulary of the properties ----
\* A connection is Joined when it is connected and the registry has an entry
\* under its id.
Joined(c) == status[c] = "connected" /\ MapHas(users, c)

generalRoom == rooms[CHOOSE r \in 1..Len(rooms) : rooms[r].id = <<"general">>]

Range(s) == {s[i] : i \in 1..Len(s)}

\* the number of events named ev that the last handler sent to socket c
Received(o, c, ev) == Cardinality({k \in 1..Len(o) : o[k].to = c /\ o[k].ev = ev})

FailedAck(c) == Event(c, "ack", <<FALSE>>)

\* registry, rooms and log are as they were before the step
StateUnchanged == users' = users /\ rooms' = rooms /\ messages' = messages

\* ---- C1 ----
\* C1: no two entries of the users registry have usernames that are equal
\* when compared case-insensitively.
C1_UniqueUsernames ==
    \A i, j \in 1..Len(users) :
        i # j => toLowerCase(users[i].username) # toLowerCase(users[j].username)

\* ---- C2 ----
\* C2: a user:join whose trimmed username equals, case-insensitively, the
\* username of a participant registered on another connection is answered
\* with 'Username already taken' to the requester only and changes neither
\* the registry, the rooms nor the log.
TakenByOther(c, username) ==
    \E i \in 1..Len(users) :
        /\ users[i].id # c
        /\ toLowerCase(users[i].username) = toLowerCase(trim(username))

C2_TakenNameRejected ==
    [][(lastOp'.op = "user:join" /\ TakenByOther(lastOp'.conn, lastOp'.arg))
        => /\ out' = <<Event(lastOp'.conn, "ack", <<FALSE, "Username already taken">>)>>
           /\ StateUnchanged]_vars

\* ---- C3 ----
\* C3: a user:join from a connection that is already Joined is rejected
\* whatever the username: the requester gets a failure, the registry, the
\* rooms and the log are unchanged and nothing is sent to anyone else.
C3_JoinedCannotJoinAgain ==
    [][(lastOp'.op = "user:join" /\ Joined(lastOp'.conn))
        => /\ Len(out') = 1
           /\ out'[1].to = lastOp'.conn
           /\ out'[1].ev = "ack"
           /\ out'[1].payload[1] = FALSE
           /\ StateUnchanged
           /\ sockUser' = sockUser]_vars

\* ---- C4 ----
\* C4: the ids of the message log are pairwise distinct and strictly
\* increasing in append order.
C4_LogIdsStrictlyIncreasing ==
    \A i, j \in 1..Len(messages) : i < j => messages[i].id < messages[j].id

\* ---- C5 ----
\* C5: message:getHistory with limit n >= 0 sends the requester exactly the
\* last min(n, len) entries of the log, oldest first; without a limit, n = 50.
LastEntries(n) ==
    LET len == Len(messages)
        k == IF n < len THEN n ELSE len
    IN [i \in 1..k |-> messages[len - k + i]]

C5_HistoryIsTail ==
    lastOp.op = "message:getHistory"
        => out = <<Event(lastOp.conn, "message:history",
                         LastEntries(IF lastOp.arg = NoLimit THEN 50 ELSE lastOp.arg))>>

\* ---- C6 ----
\* C6: a second invocation of the disconnect handler for the same connection
\* changes neither the registry, the rooms nor the log and emits nothing.
C6_SecondDisconnectNoOp ==
    [][lastOp'.op = "disconnect:again" => (StateUnchanged /\ out' = <<>>)]_vars

\* ---- C7 ----
\* C7: every user id in any room's member list is a key of the users
\* registry, and right after a connection's disconnect its id is in no
\* room's member list.
C7_MembersAreRegistered ==
    /\ \A r \in 1..Len(rooms) : \A k \in 1..Len(rooms[r].users) :
            MapHas(users, rooms[r].users[k].id)
    /\ lastOp.op = "disconnect"
            => \A r \in 1..Len(rooms) : \A k \in 1..Len(rooms[r].users) :
                    rooms[r].users[k].id # lastOp.conn

\* a Joined connection has just disconnected while another participant stays
C7_Witness ==
    /\ lastOp.op = "disconnect"
    /\ sockUser[lastOp.conn] # NoUser
    /\ Len(generalRoom.users) = 1
    /\ Received(out, generalRoom.users[1].id, "user:left") = 1

\* ---- C8 ----
\* C8: the default room 'general' exists and every participant of the users
\* registry is in its member list.
C8_EveryoneInGeneral ==
    /\ \E r \in 1..Len(rooms) : rooms[r].id = <<"general">>
    /\ \A i \in 1..Len(users) : users[i] \in Range(generalRoom.users)

\* two participants are registered, a room was created and one has just sent
C8_Witness ==
    /\ Len(users) = 2
    /\ Len(rooms) > 1
    /\ lastOp.op = "message:send"
    /\ Received(out, lastOp.conn, "message:new") = 1

\* ---- C9 ----
\* C9: a message:send with non-blank content from a Joined connection appends
\* exactly one entry of type 'text' carrying the sender's registered id and
\* username and the trimmed content, and every Joined participant, the
\* sender included, receives exactly one message:new carrying that entry.
TrimmedIs(content, t) ==
    \E a, b \in 0..Len(content) :
        /\ a + b + Len(t) = Len(content)
        /\ \A i \in 1..a : content[i] = " "
        /\ \A i \in 1..b : content[Len(content) + 1 - i] = " "
        /\ \A i \in 1..Len(t) : content[a + i] = t[i]
        /\ (t # <<>> => t[1] # " " /\ t[Len(t)] # " ")

NonBlank(content) == \E i \in 1..Len(content) : content[i] # " "

C9_SendAppendsAndReachesAll ==
    [][(lastOp'.op = "message:send" /\ Joined(lastOp'.conn)
            /\ lastOp'.arg # NotAString /\ NonBlank(lastOp'.arg))
        => LET c == lastOp'.conn
               sender == MapGet(users, c)
               entry == messages'[Len(messages')]
           IN /\ Len(messages') = Len(messages) + 1
              /\ SubSeq(messages', 1, Len(messages)) = messages
              /\ entry.type = "text"
              /\ entry.userId = sender.id
              /\ entry.username = sender.username
              /\ TrimmedIs(lastOp'.arg, entry.content)
              /\ \A d \in Conns : Joined(d) =>
                    /\ Received(out', d, "message:new") = 1
                    /\ \A k \in 1..Len(out') :
                          (out'[k].to = d /\ out'[k].ev = "message:new")
                              => out'[k].payload = entry]_vars

\* two participants are Joined and one has just sent " h "
C9_Witness ==
    /\ lastOp.op = "message:send"
    /\ lastOp.arg = <<" ", "h", " ">>
    /\ \A d \in {1, 2} : Joined(d) /\ Received(out, d, "message:new") = 1
    /\ messages[Len(messages)].type = "text"
    /\ messages[Len(messages)].content = <<"h">>

\* ---- C10 ----
\* C10: a rejected message:send appends nothing and broadcasts nothing: blank
\* content from a Joined connection gets only the failure; a sender that is
\* not Joined gets the failure and an 'error' event, and nobody else anything.
C10_RejectedSendIsSilent ==
    [][(lastOp'.op = "message:send")
        => LET c == lastOp'.conn
           IN /\ (~Joined(c)
                    => /\ out' = <<FailedAck(c), Event(c, "error", "You must join first")>>
                       /\ StateUnchanged)
              /\ (Joined(c) /\ ~NonBlank(lastOp'.arg)
                    => /\ out' = <<FailedAck(c)>>
                       /\ StateUnchanged)]_vars

\* a Joined connection has just sent whitespace while another one is Joined
C10_Witness ==
    /\ lastOp.op = "message:send"
    /\ lastOp.arg = <<" ">>
    /\ Joined(lastOp.conn)
    /\ \E d \in Conns : d # lastOp.conn /\ Joined(d)
    /\ out = <<FailedAck(lastOp.conn)>>

\* ---- C11 ----
\* C11: when a Joined connection A disconnects, A leaves the registry and
\* every room, one '<A's username> left the chat' system message is appended,
\* and every remaining participant receives exactly one user:left for A and
\* then exactly one message:new carrying that message.
Positions(o, c, ev) == {k \in 1..Len(o) : o[k].to = c /\ o[k].ev = ev}

AppendedOne == /\ Len(messages') = Len(messages) + 1
               /\ SubSeq(messages', 1, Len(messages)) = messages

C11_DisconnectAnnounced ==
    [][(lastOp'.op = "disconnect" /\ Joined(lastOp'.conn))
        => LET a == lastOp'.conn
               user == MapGet(users, a)
               entry == messages'[Len(messages')]
           IN /\ ~MapHas(users', a)
              /\ \A r \in 1..Len(rooms') : \A k \in 1..Len(rooms'[r].users) :
                    rooms'[r].users[k].id # a
              /\ AppendedOne
              /\ entry.type = "system"
              /\ entry.userId = System
              /\ entry.content = user.username \o <<" ", "left the chat">>
              /\ \A d \in Conns : (d # a /\ Joined(d)) =>
                    /\ Received(out', d, "user:left") = 1
                    /\ Received(out', d, "message:new") = 1
                    /\ \A i \in Positions(out', d, "user:left") :
                          /\ out'[i].payload = user
                          /\ \A j \in Positions(out', d, "message:new") :
                                i < j /\ out'[j].payload = entry]_vars

\* a participant has just left while another one stays and was told
C11_Witness ==
    /\ lastOp.op = "disconnect"
    /\ sockUser[lastOp.conn] # NoUser
    /\ \E d \in Conns :
          /\ Joined(d)
          /\ Received(out, d, "user:left") = 1
          /\ Received(out, d, "message:new") = 1
    /\ messages[Len(messages)].content
          = sockUser[lastOp.conn].username \o <<" ", "left the chat">>

\* ---- C12 ----
\* C12: in a successful join the requester is sent users:list and
\* message:history before the message:new of the system message this join
\* appends; the history is taken from the log as it was before that append,
\* and the requester is sent that system message exactly once.
Succeeded(o, c) ==
    \E k \in 1..Len(o) : o[k].to = c /\ o[k].ev = "ack" /\ o[k].payload[1] = TRUE

IsSuffix(h, log) == \E n \in 0..Len(log) : h = SubSeq(log, n + 1, Len(log))

C12_SnapshotBeforeAnnouncement ==
    [][(lastOp'.op = "user:join" /\ Succeeded(out', lastOp'.conn))
        => LET c == lastOp'.conn
               entry == messages'[Len(messages')]
           IN /\ AppendedOne
              /\ entry.type = "system"
              /\ Received(out', c, "users:list") = 1
              /\ Received(out', c, "message:history") = 1
              /\ Received(out', c, "message:new") = 1
              /\ \A j \in Positions(out', c, "message:new") :
                    /\ out'[j].payload = entry
                    /\ \A i \in Positions(out', c, "users:list")
                                \cup Positions(out', c, "message:history") : i < j
              /\ \A i \in Positions(out', c, "message:history") :
                    IsSuffix(out'[i].payload, messages)]_vars

\* a second participant has just joined a chat that already has a log
C12_Witness ==
    /\ lastOp.op = "user:join"
    /\ Succeeded(out, lastOp.conn)
    /\ Len(users) = 2
    /\ Len(messages) >= 2
    /\ \E i \in Positions(out, lastOp.conn, "message:history") :
          out[i].payload = SubSeq(messages, 1, Len(messages) - 1)

\* ---- C13 ----
\* C13: the broadcast events (user:joined, user:left, message:new,
\* room:created, the typing notification) go only to registered
\* participants, never to a connection that has not joined.
BroadcastEvents == {"user:joined", "user:left", "message:new", "room:created", "notification"}

C13_BroadcastOnlyToParticipants ==
    \A k \in 1..Len(out) : out[k].ev \in BroadcastEvents => MapHas(users, out[k].to)

\* ---- C14 ----
\* C14: a successful room:create adds one room with an empty member list
\* under an id that no existing room has, keeping every existing room; a
\* room:create from a connection that is not Joined creates no room and
\* sends only the null answer.
RoomCreated(o, c) ==
    \E k \in 1..Len(o) : o[k].to = c /\ o[k].ev = "ack" /\ o[k].payload[1] # NullRoom

C14_RoomCreateAddsFreshRoom ==
    [][lastOp'.op = "room:create"
        => LET c == lastOp'.conn
           IN /\ RoomCreated(out', c)
                    => /\ Len(rooms') = Len(rooms) + 1
                       /\ SubSeq(rooms', 1, Len(rooms)) = rooms
                       /\ rooms'[Len(rooms')].users = <<>>
                       /\ \A r \in 1..Len(rooms) : rooms[r].id # rooms'[Len(rooms')].id
              /\ ~Joined(c)
                    => /\ rooms' = rooms
                       /\ out' = <<Event(c, "ack", <<NullRoom>>)>>]_vars

\* ---- C15 ----
\* C15: in a successful join every other registered participant is sent
\* user:joined exactly once and the requester never; the users:list sent to
\* the requester is the registry as it is then, the requester included.
C15_JoinedToOthersListToJoiner ==
    [][(lastOp'.op = "user:join" /\ Succeeded(out', lastOp'.conn))
        => LET c == lastOp'.conn
           IN /\ Received(out', c, "user:joined") = 0
              /\ \A d \in Conns : (d # c /\ Joined(d)) =>
                    /\ Received(out', d, "user:joined") = 1
                    /\ \A k \in Positions(out', d, "user:joined") :
                          out'[k].payload = MapGet(users', c)
              /\ Received(out', c, "users:list") = 1
              /\ \A k \in Positions(out', c, "users:list") :
                    /\ Range(out'[k].payload) = Range(users')
                    /\ Len(out'[k].payload) = Len(users')
                    /\ MapHas(out'[k].payload, c)]_vars

\* a second participant has just joined: the first one was told, the joiner
\* got a list of two
C15_Witness ==
    /\ lastOp.op = "user:join"
    /\ Succeeded(out, lastOp.conn)
    /\ \E d \in Conns :
          d # lastOp.conn /\ Joined(d) /\ Received(out, d, "user:joined") = 1
    /\ \E k \in Positions(out, lastOp.conn, "users:list") : Len(out[k].payload) = 2

\* ---- C16 ----
\* C16: message:getHistory and room:list change neither the registry, the
\* rooms nor the log, and emit exactly one event, to the requester.
C16_ReadOnlyQueries ==
    [][lastOp'.op \in {"message:getHistory", "room:list"}
        => /\ StateUnchanged
           /\ status' = status
           /\ sockUser' = sockUser
           /\ Len(out') = 1
           /\ out'[1].to = lastOp'.conn
           /\ out'[1].ev = (IF lastOp'.op = "room:list"
                            THEN "rooms:list" ELSE "message:history")]_vars

\* a connection that has not joined has just listed the rooms while another
\* one is Joined and a room was created
C16_Witness ==
    /\ lastOp.op = "room:list"
    /\ ~MapHas(users, lastOp.conn)
    /\ \E d \in Conns : d # lastOp.conn /\ Joined(d)
    /\ Len(rooms) > 1
    /\ out = <<Event(lastOp.conn, "rooms:list", rooms)>>

\* ---- C17 ----
\* the operations that append to the log: a join or a send that answers
\* success, and the disconnect of a Joined connection
LogGrows ==
    \/ /\ lastOp'.op \in {"user:join", "message:send"}
       /\ Succeeded(out', lastOp'.conn)
    \/ /\ lastOp'.op = "disconnect"
       /\ Joined(lastOp'.conn)

\* C17: the log before a step is a prefix of the log after it; it grows by
\* one entry on a successful join, a successful send and the disconnect of
\* a Joined connection, and by none on every other step.
C17_LogAppendOnly ==
    [][/\ Len(messages) <= Len(messages')
       /\ SubSeq(messages', 1, Len(messages)) = messages
       /\ Len(messages') = Len(messages) + (IF LogGrows THEN 1 ELSE 0)]_vars

\* the log holds a join, a send and a disconnect, in that order
C17_Witness ==
    /\ lastOp.op = "disconnect"
    /\ Len(messages) = 3
    /\ messages[1].type = "system"
    /\ messages[2].type = "text"
    /\ messages[3].type = "system"

\* ---- C18 ----
\* the handler answered failure: false for user:join and message:send, null
\* for room:create
Failed(o, c, op) ==
    \E k \in 1..Len(o) :
        /\ o[k].to = c
        /\ o[k].ev = "ack"
        /\ IF op = "room:create" THEN o[k].payload[1] = NullRoom
                                 ELSE o[k].payload[1] = FALSE

\* C18: a user:join, message:send or room:create that answers failure, the
\* internal-error answer included, leaves the registry, the rooms and the
\* log as they were, and every connection stays connected and keeps its
\* socket.data.
C18_FailureChangesNothing ==
    [][(/\ lastOp'.op \in {"user:join", "message:send", "room:create"}
        /\ Failed(out', lastOp'.conn, lastOp'.op))
        => /\ StateUnchanged
           /\ status' = status
           /\ sockUser' = sockUser]_vars

\* a Joined connection's room:create has just faulted on a name that is not
\* a string, while another connection is Joined
C18_Witness ==
    /\ lastOp.op = "room:create"
    /\ lastOp.arg = NotAString
    /\ Joined(lastOp.conn)
    /\ Failed(out, lastOp.conn, "room:create")
    /\ \E d \in Conns : d # lastOp.conn /\ Joined(d)

\* ---- C19 ----
\* C19: the member list of 'general' mirrors the registry: every registered
\* id occurs in it exactly once, and every entry of it is a registered id
\* with the username the registry records.
C19_GeneralMirrorsRegistry ==
    LET g == generalRoom.users
    IN /\ \A i \in 1..Len(users) :
             Cardinality({k \in 1..Len(g) : g[k].id = users[i].id}) = 1
       /\ \A k \in 1..Len(g) :
             \E i \in 1..Len(users) :
                /\ users[i].id = g[k].id
                /\ users[i].username = g[k].username

\* ---- C20 ----
\* a registered participant holds the name that username trims to, whatever
\* the case of its letters
HeldByParticipant(username) ==
    \E i \in 1..Len(users) :
        /\ status[users[i].id] = "connected"
        /\ toLowerCase(users[i].username) = toLowerCase(trim(username))

NameTaken(o, c) ==
    \E k \in 1..Len(o) :
        o[k] = Event(c, "ack", <<FALSE, "Username already taken">>)

\* C20: a join from a connection that has not joined, with a name no
\* registered participant holds, succeeds and registers that name; a join
\* is answered 'Username already taken' only when a registered participant
\* holds the name.
C20_NameFreeAfterHolderLeaves ==
    [][(lastOp'.op = "user:join" /\ lastOp'.arg # NotAString)
        => LET c == lastOp'.conn
               username == lastOp'.arg
           IN /\ (/\ ~MapHas(users, c)
                  /\ Len(trim(username)) > 0
                  /\ ~HeldByParticipant(username))
                    => /\ Succeeded(out', c)
                       /\ MapHas(users', c)
                       /\ MapGet(users', c).username = trim(username)
              /\ NameTaken(out', c) => HeldByParticipant(username)]_vars

\* a connection has just joined under the name of a participant that left
C20_Witness ==
    /\ lastOp.op = "user:join"
    /\ Succeeded(out, lastOp.conn)
    /\ \E d \in Conns : status[d] = "closed"
    /\ \E k \in 1..Len(messages) :
          messages[k].content = LeftText(MapGet(users, lastOp.conn).username)

\* ---- ChatApp (src/vite.config.ts) ----
\* the server's part of the state
serverVars == <<status, sockUser, users, rooms, messages, now, out, lastOp>>

\* what the user can type into the username field and the message field
LoginInputs == UsernameInputs \ {NotAString}
MessageInputs == ContentInputs \ {NotAString}

\* this.socket.connected
ClientConnected == clientSocket # NoSocket

\* The socket of the ChatApp connects: autoConnect at construction, the
\* automatic reconnection after the transport dropped, socket.connect()
\* after a logout.  The server sees a new socket, under a fresh id; the
\* 'connect' listener only updates the connection indicator.
ClientConnect(c) ==
    /\ ~ClientConnected
    /\ Connection(c)
    /\ clientSocket' = c
    /\ UNCHANGED <<currentUser, screen>>

\* The transport drops: the server runs its disconnect handler, the
\* 'disconnect' listener of the client updates the indicator and shows a
\* toast.
ClientDisconnect ==
    /\ ClientConnected
    /\ Disconnect(clientSocket)
    /\ clientSocket' = NoSocket
    /\ UNCHANGED <<currentUser, screen>>

\* The login form is submitted while the socket is connected; the callback
\* of user:join is run with the server's answer.
handleLogin(input) ==
    /\ screen = "login"
    /\ ClientConnected
    /\ LET username == trim(input)
       IN IF username = <<>>
          THEN /\ lastOp = NoOp
               /\ UNCHANGED vars
          ELSE /\ UserJoin(clientSocket, username)
               /\ IF Succeeded(out', clientSocket)
                  THEN /\ currentUser' = User(clientSocket, username, now')
                       /\ screen' = "chat"
                  ELSE UNCHANGED <<currentUser, screen>>
               /\ UNCHANGED clientSocket

\* The message form of the chat screen is submitted while the socket is
\* connected; the callback touches the page only.
handleSendMessage(input) ==
    /\ screen = "chat"
    /\ ClientConnected
    /\ LET content == trim(input)
       IN IF content = <<>>
          THEN /\ lastOp = NoOp
               /\ UNCHANGED serverVars
          ELSE MessageSend(clientSocket, content)
    /\ UNCHANGED clientVars

\* a key is pressed in the message field
handleTyping ==
    /\ screen = "chat"
    /\ ClientConnected
    /\ TypingStart(clientSocket)
    /\ UNCHANGED clientVars

\* the timer set by handleTyping fires
typingTimeout ==
    /\ screen = "chat"
    /\ ClientConnected
    /\ TypingStop(clientSocket)
    /\ UNCHANGED clientVars

\* the logout button of the chat screen; the socket connects again later
\* (ClientConnect)
handleLogout ==
    /\ screen = "chat"
    /\ IF ClientConnected
       THEN Disconnect(clientSocket)
       ELSE /\ lastOp = NoOp
            /\ UNCHANGED serverVars
    /\ clientSocket' = NoSocket
    /\ currentUser' = NoUser
    /\ screen' = "login"

\* the sockets that are not the ChatApp's
Others == Conns \ {clientSocket}

\* one ChatApp, the server, and raw sockets beside the ChatApp's
NextClient ==
    \/ Deliver /\ UNCHANGED clientVars
    \/ \E c \in Conns : ClientConnect(c)
    \/ ClientDisconnect
    \/ \E input \in LoginInputs : handleLogin(input)
    \/ \E input \in MessageInputs : handleSendMessage(input)
    \/ handleTyping
    \/ typingTimeout
    \/ handleLogout
    \/ \E c \in Others : Connection(c) /\ UNCHANGED clientVars
    \/ \E c \in Others, username \in UsernameInputs :
          UserJoin(c, username) /\ UNCHANGED clientVars
    \/ \E c \in Others, content \in ContentInputs :
          MessageSend(c, content) /\ UNCHANGED clientVars
    \/ \E c \in Others, limit \in LimitInputs :
          GetHistory(c, limit) /\ UNCHANGED clientVars
    \/ \E c \in Others, name \in RoomNameInputs :
          RoomCreate(c, name) /\ UNCHANGED clientVars
    \/ \E c \in Others : RoomList(c) /\ UNCHANGED clientVars
    \/ \E c \in Others : TypingStart(c) /\ UNCHANGED clientVars
    \/ \E c \in Others : TypingStop(c) /\ UNCHANGED clientVars
    \/ \E c \in Others : Disconnect(c) /\ UNCHANGED clientVars

SpecClient == Init /\ [][NextClient]_vars

\* ---- C21 ----
\* C21: whenever the ChatApp's socket is connected and the ChatApp is logged
\* in (currentUser set, chat screen shown), the server has a registered
\* participant for that socket, and the socket has not been answered
\* 'You must join first'.
C21_ClientAndServerAgree ==
    (ClientConnected /\ currentUser # NoUser /\ screen = "chat")
        => /\ Joined(clientSocket)
           /\ sockUser[clientSocket] # NoUser
           /\ \A k \in 1..Len(out) :
                 ~(out[k].to = clientSocket /\ out[k].ev = "error")
====
